---- MODULE Spec2Model ----
(***************************************************************************)
(* DLMUSE command line wrapper (src/src/__main__.py, main): prepare the    *)
(* working folder, copy the input files under canonical names, write the  *)
(* rename manifest, check the arguments, run the external predictor,      *)
(* rename the predictor's outputs back and remove the working folder.     *)
(*                                                                         *)
(* A file name is a tuple of its parts, the extension last:               *)
(* "0001_0000.nii.gz" is <<"0001", "_0000", ".nii.gz">>.  A file's content  *)
(* is <<origin, name>>: <<"in", n>> for the bytes of the user's file n     *)
(* found under path "in", <<"seg", n>> for the segmentation computed from  *)
(* the bytes of n, <<"json", ...>> for the manifest.                       *)
(***************************************************************************)
EXTENDS Integers, Sequences, FiniteSets, TLC

VARIABLES
    args,              \* parsed command line: i, o, part_id, num_parts, device
    fs,                \* the filesystem: path -> folder
    fs0,               \* the filesystem as it was when main started
    pc,                \* position of main
    failedAt,          \* the step whose exception ended main, or "none"
    err,               \* the exception, or "none"
    rename_dic,        \* forward manifest returned by rename_and_copy_files
    rename_back_dict,  \* inverse manifest returned by rename_and_copy_files
    files,             \* names listed by os.listdir(args.o), not yet visited
    log,               \* the components run so far, in order
    predictor          \* "none", "constructed" or "called"

vars == <<args, fs, fs0, pc, failedAt, err, rename_dic, rename_back_dict,
          files, log, predictor>>

----------------------------------------------------------------------------
(* Bounds *)

\* most files a folder holds when main starts
MaxFiles == 3
\* largest value of -num_parts and -part_id tried
MaxParts == 2

----------------------------------------------------------------------------
(* Names and folders *)

NIIGZ == ".nii.gz"

\* the user's file names, in lexicographic order of the strings they stand for:
\* "0001.nii.gz" < "notes.txt" < "patientA.nii.gz" < "patientB.nii.gz"
SortedNames ==
    << <<"0001", NIIGZ>>, <<"notes", ".txt">>,
       <<"patientA", NIIGZ>>, <<"patientB", NIIGZ>> >>

UserNames == { SortedNames[k] : k \in 1..Len(SortedNames) }

Paths == {"in", "out"}

Devices == {"cpu", "cuda", "mps"}

DeviceArgs == Devices \cup {"tpu"}

NoFiles == [n \in {} |-> <<>>]

Absent == [exists |-> FALSE, files |-> NoFiles]

EmptyDir == [exists |-> TRUE, files |-> NoFiles]

\* str.endswith
EndsWith(n, ext) == Len(n) > 0 /\ n[Len(n)] = ext

Listdir(d) == DOMAIN d.files

WriteFile(d, n, c) ==
    [d EXCEPT !.files = [m \in DOMAIN d.files \cup {n} |->
                            IF m = n THEN c ELSE d.files[m]]]

RemoveFile(d, n) ==
    [d EXCEPT !.files = [m \in DOMAIN d.files \ {n} |-> d.files[m]]]

\* os.rename inside one folder; an existing target is replaced
OsRename(d, src, dst) ==
    IF src = dst THEN d ELSE WriteFile(RemoveFile(d, src), dst, d.files[src])

\* a folder of the user's: some of the user's names, each with its own bytes
UserDir(p, S) == [exists |-> TRUE, files |-> [n \in S |-> <<p, n>>]]

\* what the input folder may hold when main starts
InputDirs ==
    {Absent} \cup
    { UserDir("in", S) : S \in {T \in SUBSET UserNames : Cardinality(T) <= MaxFiles} }

\* files an output folder may hold before the run: an earlier result, a log
PreexistingNames == { <<"patientA", NIIGZ>>, <<"log", ".txt">> }

OutputDirs == {Absent} \cup { UserDir("out", S) : S \in SUBSET PreexistingNames }

----------------------------------------------------------------------------
(* Folder Preparer: utils.prepare_data_folder *)

\* what the Preparer's contract lets it do with a folder that already exists
PrepareModes == {"reuse", "rename-on-existing"}

\* creates the folder if absent; an existing folder is kept as it is, or moved
\* aside under another name and replaced by a fresh one
prepare_data_folder(d, mode) ==
    IF d.exists /\ mode = "reuse" THEN d ELSE EmptyDir

----------------------------------------------------------------------------
(* Filename Mapper: utils.rename_and_copy_files *)

Digits4 == <<"0000", "0001", "0002", "0003", "0004">>

\* f"{k:04d}"
Pad4(k) == Digits4[k + 1]

CanonicalName(k) == <<Pad4(k), "_0000", NIIGZ>>

\* the name the predictor gives the output of case k
PredictedName(k) == <<Pad4(k), NIIGZ>>

Qualifies(n) == EndsWith(n, NIIGZ)

Rank(n) == CHOOSE k \in 1..Len(SortedNames) : SortedNames[k] = n

\* the names of S in lexicographic order
SortedSeq(S) ==
    [k \in 1..Cardinality(S) |->
        CHOOSE n \in S : Cardinality({m \in S : Rank(m) < Rank(n)}) = k - 1]

\* the qualifying files of the source folder, in the order they are numbered
MapperOrder(src) == SortedSeq({n \in Listdir(src) : Qualifies(n)})

RECURSIVE CopyFiles(_, _, _, _)
\* the first k files of seq copied from src into des under canonical names
CopyFiles(des, src, seq, k) ==
    IF k = 0 THEN des
    ELSE WriteFile(CopyFiles(des, src, seq, k - 1),
                   CanonicalName(k - 1), src.files[seq[k]])

\* forward manifest: canonical name -> original name
ForwardManifest(seq) ==
    [c \in {CanonicalName(k - 1) : k \in 1..Len(seq)} |->
        seq[CHOOSE k \in 1..Len(seq) : CanonicalName(k - 1) = c]]

\* inverse manifest: predictor output name -> original name
InverseManifest(seq) ==
    [c \in {PredictedName(k - 1) : k \in 1..Len(seq)} |->
        seq[CHOOSE k \in 1..Len(seq) : PredictedName(k - 1) = c]]

----------------------------------------------------------------------------
(* External predictor: nnUNetPredictor.predict_from_files *)

IsCanonical(n) == Len(n) = 3 /\ n[2] = "_0000" /\ n[3] = NIIGZ

CaseIndex(n) == CHOOSE k \in 0..(Len(Digits4) - 1) : Pad4(k) = n[1]

OutputName(n) == <<n[1], NIIGZ>>

\* the cases of the input folder this call is responsible for
SelectedCases(d, num_parts, part_id) ==
    {n \in Listdir(d) : IsCanonical(n) /\ CaseIndex(n) % num_parts = part_id}

\* the output folder after the segmentations of the cases S are exported
WriteOutputs(out, inp, S) ==
    [out EXCEPT !.files =
        [m \in DOMAIN out.files \cup {OutputName(n) : n \in S} |->
            IF \E n \in S : OutputName(n) = m
            THEN <<"seg", inp.files[CHOOSE n \in S : OutputName(n) = m][2]>>
            ELSE out.files[m]]]

----------------------------------------------------------------------------
(* main *)

src_folder == args.i

\* des_folder = args.i: the copies would land in the source folder
des_folder_is_source == args.i

\* the working folder
des_folder == args.o

MANIFEST == <<"renaming", ".json">>

Init ==
    /\ args \in [i : {"in"}, o : Paths, part_id : 0..MaxParts,
                 num_parts : 1..MaxParts, device : DeviceArgs]
    /\ fs \in [Paths -> InputDirs \cup OutputDirs]
    /\ fs["in"] \in InputDirs
    /\ fs["out"] \in (IF args.o = "out" THEN OutputDirs ELSE {Absent})
    /\ fs0 = fs
    /\ pc = "prepare"
    /\ failedAt = "none"
    /\ err = "none"
    /\ rename_dic = NoFiles
    /\ rename_back_dict = NoFiles
    /\ files = {}
    /\ log = <<>>
    /\ predictor = "none"

\* an exception leaves main: nothing after the raising statement runs
Raise(step, e) ==
    /\ pc' = "failed"
    /\ failedAt' = step
    /\ err' = e

NoRaise == UNCHANGED <<failedAt, err>>

\* prepare_data_folder(des_folder), before the mapping
MainPrepare ==
    /\ pc = "prepare"
    /\ \E mode \in PrepareModes :
          fs' = [fs EXCEPT ![des_folder] = prepare_data_folder(fs[des_folder], mode)]
    /\ log' = Append(log, "Preparer")
    /\ pc' = "map"
    /\ NoRaise
    /\ UNCHANGED <<args, fs0, rename_dic, rename_back_dict, files, predictor>>

\* rename_and_copy_files(src_folder, des_folder) returns both manifests
MainMap ==
    /\ pc = "map"
    /\ fs[src_folder].exists
    /\ LET seq == MapperOrder(fs[src_folder]) IN
          /\ fs' = [fs EXCEPT ![des_folder] =
                        CopyFiles(fs[des_folder], fs[src_folder], seq, Len(seq))]
          /\ rename_dic' = ForwardManifest(seq)
          /\ rename_back_dict' = InverseManifest(seq)
    /\ log' = Append(log, "Mapper")
    /\ pc' = "manifest"
    /\ NoRaise
    /\ UNCHANGED <<args, fs0, files, predictor>>

\* the source folder does not exist: os.listdir raises
MainMapNoSource ==
    /\ pc = "map"
    /\ ~fs[src_folder].exists
    /\ log' = Append(log, "Mapper")
    /\ Raise("map", "FileNotFoundError")
    /\ UNCHANGED <<args, fs, fs0, rename_dic, rename_back_dict, files, predictor>>

\* a copy fails after k files were copied: the copies made stay behind
MainMapCopyFails ==
    /\ pc = "map"
    /\ fs[src_folder].exists
    /\ LET seq == MapperOrder(fs[src_folder]) IN
          \E k \in 0..(Len(seq) - 1) :
              fs' = [fs EXCEPT ![des_folder] =
                        CopyFiles(fs[des_folder], fs[src_folder], seq, k)]
    /\ log' = Append(log, "Mapper")
    /\ Raise("map", "IOError")
    /\ UNCHANGED <<args, fs0, rename_dic, rename_back_dict, files, predictor>>

\* the manifest path joined to the source folder instead of the working folder
MainManifestInSourceFolder ==
    /\ pc = "manifest"
    /\ fs' = [fs EXCEPT ![src_folder] =
                  WriteFile(fs[src_folder], MANIFEST, <<"json", MANIFEST>>)]
    /\ log' = Append(log, "ManifestWriter")
    /\ pc' = "prepare_again"
    /\ NoRaise
    /\ UNCHANGED <<args, fs0, rename_dic, rename_back_dict, files, predictor>>

\* json.dump(rename_dic) into des_folder/renaming.json
MainManifest ==
    /\ pc = "manifest"
    /\ fs' = [fs EXCEPT ![des_folder] =
                  WriteFile(fs[des_folder], MANIFEST, <<"json", MANIFEST>>)]
    /\ log' = Append(log, "ManifestWriter")
    /\ pc' = "prepare_again"
    /\ NoRaise
    /\ UNCHANGED <<args, fs0, rename_dic, rename_back_dict, files, predictor>>

\* open(datalist_file, "w") fails
MainManifestFails ==
    /\ pc = "manifest"
    /\ log' = Append(log, "ManifestWriter")
    /\ Raise("manifest", "IOError")
    /\ UNCHANGED <<args, fs, fs0, rename_dic, rename_back_dict, files, predictor>>

\* prepare_data_folder(des_folder), a second time, after the manifest is written
MainPrepareAgain ==
    /\ pc = "prepare_again"
    /\ \E mode \in PrepareModes :
          fs' = [fs EXCEPT ![des_folder] = prepare_data_folder(fs[des_folder], mode)]
    /\ log' = Append(log, "Preparer")
    /\ pc' = "assert_part_id"
    /\ NoRaise
    /\ UNCHANGED <<args, fs0, rename_dic, rename_back_dict, files, predictor>>

\* assert args.part_id < args.num_parts
MainAssertPartId ==
    /\ pc = "assert_part_id"
    /\ IF args.part_id < args.num_parts
       THEN pc' = "assert_device" /\ NoRaise
       ELSE Raise("assert_part_id", "AssertionError")
    /\ UNCHANGED <<args, fs, fs0, rename_dic, rename_back_dict, files, log, predictor>>

\* the device assertion left out
MainAssertDeviceUnchecked ==
    /\ pc = "assert_device"
    /\ pc' = "construct"
    /\ NoRaise
    /\ UNCHANGED <<args, fs, fs0, rename_dic, rename_back_dict, files, log, predictor>>

\* assert args.device in ["cpu", "cuda", "mps"]
MainAssertDevice ==
    /\ pc = "assert_device"
    /\ IF args.device \in Devices
       THEN pc' = "construct" /\ NoRaise
       ELSE Raise("assert_device", "AssertionError")
    /\ UNCHANGED <<args, fs, fs0, rename_dic, rename_back_dict, files, log, predictor>>

\* nnUNetPredictor(...) and initialize_from_trained_model_folder
MainConstruct ==
    /\ pc = "construct"
    /\ predictor' = "constructed"
    /\ pc' = "predict"
    /\ NoRaise
    /\ UNCHANGED <<args, fs, fs0, rename_dic, rename_back_dict, files, log>>

\* the model folder or the checkpoint cannot be loaded
MainConstructFails ==
    /\ pc = "construct"
    /\ predictor' = "constructed"
    /\ Raise("construct", "PredictorError")
    /\ UNCHANGED <<args, fs, fs0, rename_dic, rename_back_dict, files, log>>

\* predictor.predict_from_files(des_folder, args.o, ...)
MainPredict ==
    /\ pc = "predict"
    /\ fs' = [fs EXCEPT ![args.o] =
                  WriteOutputs(fs[args.o], fs[des_folder],
                      SelectedCases(fs[des_folder], args.num_parts, args.part_id))]
    /\ predictor' = "called"
    /\ log' = Append(log, "Predictor")
    /\ pc' = "listdir"
    /\ NoRaise
    /\ UNCHANGED <<args, fs0, rename_dic, rename_back_dict, files>>

\* the predictor raises after exporting only some of its cases
MainPredictFails ==
    /\ pc = "predict"
    /\ \E S \in SUBSET SelectedCases(fs[des_folder], args.num_parts, args.part_id) :
          fs' = [fs EXCEPT ![args.o] = WriteOutputs(fs[args.o], fs[des_folder], S)]
    /\ predictor' = "called"
    /\ log' = Append(log, "Predictor")
    /\ Raise("predict", "PredictorError")
    /\ UNCHANGED <<args, fs0, rename_dic, rename_back_dict, files>>

\* files = os.listdir(args.o)
MainListdir ==
    /\ pc = "listdir"
    /\ files' = Listdir(fs[args.o])
    /\ log' = Append(log, "Restorer")
    /\ pc' = "restore"
    /\ NoRaise
    /\ UNCHANGED <<args, fs, fs0, rename_dic, rename_back_dict, predictor>>

\* loop body, filename not ending in .nii.gz: nothing is done with it
MainRestoreSkip ==
    /\ pc = "restore"
    /\ \E filename \in files :
          /\ ~EndsWith(filename, NIIGZ)
          /\ files' = files \ {filename}
    /\ NoRaise
    /\ UNCHANGED <<args, fs, fs0, pc, rename_dic, rename_back_dict, log, predictor>>

\* the lookup error caught by a handler that removes the working folder
MainRestoreKeyErrorCleansUp ==
    /\ pc = "restore"
    /\ \E filename \in files :
          /\ EndsWith(filename, NIIGZ)
          /\ filename \notin DOMAIN rename_back_dict
    /\ fs' = [fs EXCEPT ![des_folder] = Absent]
    /\ Raise("restore", "KeyError")
    /\ UNCHANGED <<args, fs0, rename_dic, rename_back_dict, files, log, predictor>>

\* loop body, rename_back_dict[filename] with filename not a key
MainRestoreKeyError ==
    /\ pc = "restore"
    /\ \E filename \in files :
          /\ EndsWith(filename, NIIGZ)
          /\ filename \notin DOMAIN rename_back_dict
    /\ Raise("restore", "KeyError")
    /\ UNCHANGED <<args, fs, fs0, rename_dic, rename_back_dict, files, log, predictor>>

\* loop body, os.rename(filename, original_name); an existing target is replaced
\* (a listed file is still in the folder when the loop reaches it: only the
\* loop removes names, and each listed name is visited once)
MainRestoreRename ==
    /\ pc = "restore"
    /\ \E filename \in files :
          /\ EndsWith(filename, NIIGZ)
          /\ filename \in DOMAIN rename_back_dict
          /\ filename \in Listdir(fs[args.o])
          /\ fs' = [fs EXCEPT ![args.o] =
                        OsRename(fs[args.o], filename, rename_back_dict[filename])]
          /\ files' = files \ {filename}
    /\ NoRaise
    /\ UNCHANGED <<args, fs0, pc, rename_dic, rename_back_dict, log, predictor>>

\* loop body, os.rename on a platform that refuses an existing target
MainRestoreRenameRefused ==
    /\ pc = "restore"
    /\ \E filename \in files :
          /\ EndsWith(filename, NIIGZ)
          /\ filename \in DOMAIN rename_back_dict
          /\ rename_back_dict[filename] \in Listdir(fs[args.o]) \ {filename}
    /\ Raise("restore", "FileExistsError")
    /\ UNCHANGED <<args, fs, fs0, rename_dic, rename_back_dict, files, log, predictor>>

\* the loop has visited every listed file
MainRestoreEnd ==
    /\ pc = "restore"
    /\ files = {}
    /\ pc' = "cleanup"
    /\ NoRaise
    /\ UNCHANGED <<args, fs, fs0, rename_dic, rename_back_dict, files, log, predictor>>

\* the rmtree placed ahead of the restoration loop
MainCleanupBeforeRestore ==
    /\ pc \in {"listdir", "cleanup"}
    /\ fs' = [fs EXCEPT ![des_folder] =
                  IF fs[des_folder].exists THEN Absent ELSE fs[des_folder]]
    /\ log' = Append(log, "Cleanup")
    /\ pc' = "done"
    /\ NoRaise
    /\ UNCHANGED <<args, fs0, rename_dic, rename_back_dict, files, predictor>>

\* if os.path.exists(des_folder): shutil.rmtree(des_folder)
MainCleanup ==
    /\ pc = "cleanup"
    /\ fs' = [fs EXCEPT ![des_folder] =
                  IF fs[des_folder].exists THEN Absent ELSE fs[des_folder]]
    /\ log' = Append(log, "Cleanup")
    /\ pc' = "done"
    /\ NoRaise
    /\ UNCHANGED <<args, fs0, rename_dic, rename_back_dict, files, predictor>>

Next ==
    \/ MainPrepare
    \/ MainMap
    \/ MainMapNoSource
    \/ MainMapCopyFails
    \/ MainManifest
    \/ MainManifestFails
    \/ MainPrepareAgain
    \/ MainAssertPartId
    \/ MainAssertDevice
    \/ MainConstruct
    \/ MainConstructFails
    \/ MainPredict
    \/ MainPredictFails
    \/ MainListdir
    \/ MainRestoreSkip
    \/ MainRestoreKeyError
    \/ MainRestoreRename
    \/ MainRestoreRenameRefused
    \/ MainRestoreEnd
    \/ MainCleanup

Spec == Init /\ [][Next]_vars

----------------------------------------------------------------------------
(* Vocabulary of the properties *)

Ran(s) == { s[k] : k \in 1..Len(s) }

\* the original names of the qualifying input files
OriginalNames == { n \in Listdir(fs0[args.i]) : Qualifies(n) }

\* the names under which a folder holds segmentations
SegNames(d) == { n \in Listdir(d) : d.files[n][1] = "seg" }

\* every renamed copy made by the Mapper is in the working folder
CopiesInPlace ==
    \A c \in DOMAIN rename_dic :
        /\ c \in Listdir(fs[des_folder])
        /\ fs[des_folder].files[c] = <<args.i, rename_dic[c]>>

ManifestInPlace == MANIFEST \in Listdir(fs[des_folder])

\* the restoration loop is over: it visited every file, or an exception left it
RestorationEnded ==
    pc = "cleanup" \/ (pc = "failed" /\ failedAt = "restore")

ComponentOrder ==
    <<"Preparer", "Mapper", "ManifestWriter", "Predictor", "Restorer", "Cleanup">>

Ord(c) == CHOOSE k \in 1..Len(ComponentOrder) : ComponentOrder[k] = c

\* the calls main makes, in order
CallOrder ==
    <<"Preparer", "Mapper", "ManifestWriter", "Preparer", "Predictor",
      "Restorer", "Cleanup">>

----------------------------------------------------------------------------
(* Properties *)

\* C1: for N input files with distinct original names, once the copies are
\* mapped into the working folder and the restoration loop has ended, the
\* output folder holds exactly N segmentations and the set of their names is
\* the set of original input names.
C1_MappingThenRestoringYieldsOriginalNames ==
    (RestorationEnded /\ CopiesInPlace /\ args.num_parts = 1)
        => /\ fs[args.o].exists
           /\ SegNames(fs[args.o]) = OriginalNames

\* C2: at the end of a successful run the output folder still exists and
\* holds each restored file under its original name.
C2_OutputFolderHoldsRestoredFilesAtEnd ==
    pc = "done"
        => /\ fs[args.o].exists
           /\ \A k \in DOMAIN rename_back_dict :
                 /\ rename_back_dict[k] \in Listdir(fs[args.o])
                 /\ fs[args.o].files[rename_back_dict[k]] = <<"seg", rename_back_dict[k]>>

\* C3: during restoration no rename that may come next targets a name that
\* exists in the output folder, and no segmentation lies under the original
\* name of another case.
C3_RestorationOverwritesAndMisattributesNothing ==
    pc = "restore"
        => /\ \A f \in files :
                 (EndsWith(f, NIIGZ) /\ f \in DOMAIN rename_back_dict)
                     => rename_back_dict[f] \notin Listdir(fs[args.o]) \ {f}
           /\ \A n \in SegNames(fs[args.o]) \cap UserNames :
                 fs[args.o].files[n] = <<"seg", n>>

\* C4: an extra file of the output folder with no manifest entry, whatever its
\* name or extension, is passed over by the restoration loop: the loop never
\* ends in the lookup error of a file name that is no key of the inverse manifest.
C4_UnmappedOutputIsNoFatalError ==
    ~(pc = "failed" /\ failedAt = "restore" /\ err = "KeyError")

\* C5: when part_id >= num_parts or the device is not cpu, cuda or mps, main
\* has failed with the filesystem as it found it: nothing prepared, copied
\* or written.
C5_InvalidArgumentsFailBeforeAnyMutation ==
    (pc = "failed" /\ failedAt \in {"assert_part_id", "assert_device"})
        => fs = fs0

\* C6: whenever the predictor has been constructed or called, part_id is
\* strictly less than num_parts and the device is one of cpu, cuda, mps.
C6_PredictorOnlyWithValidArguments ==
    predictor # "none"
        => /\ args.part_id < args.num_parts
           /\ args.device \in Devices

C6_Witness ==
    /\ predictor = "called"
    /\ args.part_id < args.num_parts
    /\ args.device \in Devices

\* C7: Cleanup has run only in a run that did not fail and whose restoration
\* loop visited every listed file; once a step has failed nothing else runs,
\* the predictor is called at most once, and the working folder still exists.
C7_CleanupOnlyAfterRestorationNoneOnFailure ==
    /\ []( /\ "Cleanup" \in Ran(log)
                => /\ pc = "done"
                   /\ files = {}
                   /\ "Restorer" \in Ran(log)
           /\ pc = "failed"
                => /\ fs[des_folder].exists
                   /\ "Cleanup" \notin Ran(log)
           /\ Cardinality({k \in 1..Len(log) : log[k] = "Predictor"}) <= 1 )
    /\ [][pc = "failed" => UNCHANGED vars]_vars

C7_Witness ==
    /\ pc = "failed"
    /\ failedAt = "restore"
    /\ CopiesInPlace
    /\ DOMAIN rename_dic # {}
    /\ SegNames(fs[args.o]) \cap UserNames # {}

C9_ComponentsRunOnceInOrder ==
    \A a, b \in 1..Len(log) : a < b => Ord(log[a]) < Ord(log[b])

\* C9 amended: the calls of a run are a prefix of Preparer, Mapper, Manifest
\* Writer, Preparer, Predictor, Restorer, Cleanup: the Preparer runs a second
\* time after the Manifest Writer, and nothing else runs again.
C9_CallsFollowCallOrder ==
    /\ Len(log) <= Len(CallOrder)
    /\ log = SubSeq(CallOrder, 1, Len(log))

C9_Witness ==
    /\ pc = "done"
    /\ log = CallOrder

====
